---- MODULE Spec2Model ----
(***************************************************************************)
(* Model of the SEGGER open flash loader for the IS25LQ040B serial flash   *)
(* on an LPC1756 (flash/flash_device.cpp).                                 *)
(*                                                                         *)
(* The host calls one entry point of SEGGER_OFL_Api at a time; every entry *)
(* point runs to completion.  One action models one entry-point call.  The *)
(* state is the content of the flash chip, the static buffer of            *)
(* BlankCheck, and a record of the last call: its arguments, its return    *)
(* value, the bytes it handed back and the ordered trace of the nested     *)
(* calls, bus commands, status queries and delays it made.                 *)
(*                                                                         *)
(* A uint32_t is kept as two 16-bit halves [hi, lo] because the values     *)
(* 0xA0000000 and 0xFFFFFF00 exceed the 32-bit signed integers of TLC;     *)
(* additions carry from lo to hi and wrap at 2^32.                         *)
(***************************************************************************)
EXTENDS Integers, Sequences, FiniteSets, TLC

VARIABLES pc, mem, old, buffer, ret, out, trace

vars == <<pc, mem, old, buffer, ret, out, trace>>

----------------------------------------------------------------------------
(* Geometry and descriptor constants.                                      *)

(* a shift of 9: pages of 512 bytes                                        *)
PAGE_SIZE_SHIFT_Nine == 8 + 1

PAGE_SIZE_SHIFT == 8

SECTOR_SIZE_SHIFT == 12

PageSize == 2 ^ PAGE_SIZE_SHIFT

SectorSize == 2 ^ SECTOR_SIZE_SHIFT

(* the page size and the sector size of the FlashDevice descriptor         *)
FlashPageSize == 256

FlashSectorSize == 4096

FlashSize == 524288

BaseAddressHi == 40960

BlankValue == 255

BufferSize == 256

DelayMs == 3

Half == 2 ^ 16

(* The literal 0xfffffff of "address & 0xfffffff": 28 one bits, that is    *)
(* 12 one bits in the upper half and 16 in the lower half.                 *)
MaskHiBits == 12

MaskLoBits == 16

----------------------------------------------------------------------------
(* Bounds of the model.                                                    *)

(* most busy answers the chip gives to the status queries after a command *)
(* (within one call the chip answers busy equally often after each one)    *)
MaxBusy == 1

(* most whole pages in a SEGGER_OPEN_Program request                       *)
MaxPages == 2

(* most sectors in a SEGGER_OPEN_Erase request                             *)
MaxSectors == 2

(* most busy answers the trace of a call polled step by step keeps         *)
MaxPollsKept == 2

----------------------------------------------------------------------------
(* uint32_t arithmetic.                                                    *)

U32(h, l) == [hi |-> h, lo |-> l]

(* a + n for a uint32_t a and 0 <= n < 2^16 * 2^14, wrapping at 2^32       *)
Add32(a, n) ==
    LET s == a.lo + n
    IN  [hi |-> (a.hi + (s \div Half)) % Half, lo |-> s % Half]

(* the mask written with too many one bits: 0x3fffffff                     *)
MaskAddress_Wide(a) == (a.hi % (2 ^ 14)) * Half + (a.lo % (2 ^ MaskLoBits))

(* address & 0xfffffff, as a number below 2^28                             *)
MaskAddress(a) == (a.hi % (2 ^ MaskHiBits)) * Half + (a.lo % (2 ^ MaskLoBits))

(* the uint32_t of a number below 2^31                                     *)
ToU32(n) == [hi |-> n \div Half, lo |-> n % Half]

Min(a, b) == IF a < b THEN a ELSE b

----------------------------------------------------------------------------
(* Host data buffers.  A buffer is named by its pattern; HostByte gives    *)
(* its byte at index k.  A data pointer is a buffer and an offset into it. *)

Patterns == {"mark", "blank"}

HostByte(p, k) ==
    CASE p = "mark"  -> IF k % PageSize \in {0, 128, 255}
                         THEN 1 + (k \div PageSize) ELSE BlankValue
      [] p = "blank" -> BlankValue

----------------------------------------------------------------------------
(* The flash chip behind memory::read / write / erase / chip_erase.        *)
(* mem holds the cells that differ from the erased value.  A write stores  *)
(* the bytes it is given, a sector erase sets the 4096 cells of the sector *)
(* of the address to the erased value, and the chip decodes an address     *)
(* modulo its capacity.                                                    *)

NoData == [k \in {} |-> 0]

DevByte(m, a) ==
    LET d == a % FlashSize
    IN  IF d \in DOMAIN m THEN m[d] ELSE BlankValue

DevWrite(m, a, p, off, len) ==
    LET tgt    == {(a + k) % FlashSize : k \in 0 .. len - 1}
        idx(d) == (d - (a % FlashSize) + FlashSize) % FlashSize
        new(d) == HostByte(p, off + idx(d))
        dom    == {d \in DOMAIN m : d \notin tgt}
                    \cup {d \in tgt : new(d) # BlankValue}
    IN  [d \in dom |-> IF d \in tgt THEN new(d) ELSE m[d]]

DevEraseSector(m, a) ==
    LET s == (a % FlashSize) \div SectorSize
    IN  [d \in {x \in DOMAIN m : x \div SectorSize # s} |-> m[d]]

DevEraseChip(m) == NoData

----------------------------------------------------------------------------
(* Events of a call's trace.                                               *)

CallEv(fn, a) == [op |-> "call", fn |-> fn, args |-> a]

EraseEv(a) == [op |-> "erase", mode |-> "sector", addr |-> a]

ChipEraseEv == [op |-> "chip_erase"]

WriteEv(a, p, off, len) ==
    [op |-> "write", addr |-> a, buf |-> p, off |-> off, len |-> len]

RetEv(fn, r) == [op |-> "return", fn |-> fn, val |-> r]

ReadEv(a, len) == [op |-> "read", addr |-> a, len |-> len]

BusyEv(b) == [op |-> "is_busy", busy |-> b]

DelayEv == [op |-> "delay", ms |-> DelayMs]

(* the delay made before the status query: do { delay } while (busy)       *)
Poll_DelayFirst(n) ==
    [i \in 1 .. 2 * (n + 1) |->
        IF i % 2 = 1 THEN DelayEv ELSE BusyEv(i < 2 * (n + 1))]

(* while (memory::is_busy()) { delay(3 ms); } with n busy answers          *)
RECURSIVE Poll(_)
Poll(n) ==
    IF n = 0 THEN <<BusyEv(FALSE)>>
    ELSE <<BusyEv(TRUE), DelayEv>> \o Poll(n - 1)

----------------------------------------------------------------------------
(* The entry points.  Each operator gives the result of one call made with *)
(* chip content m and static buffer b: the new chip content and buffer,    *)
(* the return value, the bytes handed back and the trace.                  *)

Result(m, b, r, o, t) ==
    [mem |-> m, buffer |-> b, ret |-> r, out |-> o, trace |-> t]

(* the return of fn closes its trace                                       *)
Return(fn, res) == [res EXCEPT !.trace = Append(@, RetEv(fn, res.ret))]

FeedWatchdog(m, b) ==
    Return("FeedWatchdog",
           Result(m, b, 0, NoData, <<CallEv("FeedWatchdog", <<>>)>>))

Init_CommandFirst(m, b, address, frequency, function, n) ==
    Return("Init",
           Result(m, b, 0, NoData,
                  <<CallEv("Init", <<address, frequency, function>>),
                    [op |-> "flash_setup", waitstates |-> 4],
                    [op |-> "clock_set_main", hz |-> 96000000],
                    [op |-> "cs_init"],
                    [op |-> "memory_init"],
                    [op |-> "spi_init", mode |-> 3, hz |-> 1000000,
                     bits |-> 8],
                    [op |-> "cs_set", level |-> TRUE]>> \o Poll(n)))

Init(m, b, address, frequency, function, n) ==
    Return("Init",
           Result(m, b, 0, NoData,
                  <<CallEv("Init", <<address, frequency, function>>),
                    [op |-> "flash_setup", waitstates |-> 4],
                    [op |-> "clock_set_main", hz |-> 96000000],
                    [op |-> "cs_init"],
                    [op |-> "spi_init", mode |-> 3, hz |-> 1000000,
                     bits |-> 8],
                    [op |-> "cs_set", level |-> TRUE],
                    [op |-> "memory_init"]>> \o Poll(n)))

UnInit(m, b, function) ==
    Return("UnInit",
           Result(m, b, 0, NoData, <<CallEv("UnInit", <<function>>)>>))

(* EraseSector passing the sector index instead of the address            *)
EraseSector_SectorIndex(m, b, sector_address, n) ==
    LET a == MaskAddress(sector_address) \div (2 ^ SECTOR_SIZE_SHIFT)
    IN  Return("EraseSector",
               Result(DevEraseSector(m, a), b, 0, NoData,
                      <<CallEv("EraseSector", <<sector_address>>),
                        EraseEv(a)>> \o Poll(n)))

(* EraseSector rounding the address down to its sector                     *)
EraseSector_RoundDown(m, b, sector_address, n) ==
    LET a == (MaskAddress(sector_address) \div (2 ^ SECTOR_SIZE_SHIFT))
                 * (2 ^ SECTOR_SIZE_SHIFT)
    IN  Return("EraseSector",
               Result(DevEraseSector(m, a), b, 0, NoData,
                      <<CallEv("EraseSector", <<sector_address>>),
                        EraseEv(a)>> \o Poll(n)))

EraseSector(m, b, sector_address, n) ==
    LET a == MaskAddress(sector_address)
    IN  Return("EraseSector",
               Result(DevEraseSector(m, a), b, 0, NoData,
                      <<CallEv("EraseSector", <<sector_address>>),
                        EraseEv(a)>> \o Poll(n)))

(* ProgramPage writing size - 1 bytes                                      *)
ProgramPage_ShortWrite(m, b, address, size, p, off, n) ==
    LET a == MaskAddress(address)
    IN  Return("ProgramPage",
               Result(DevWrite(m, a, p, off, size - 1), b, 0, NoData,
                      <<CallEv("ProgramPage", <<address, size, p, off>>),
                        WriteEv(a, p, off, size - 1)>> \o Poll(n)))

(* ProgramPage masking with 0x3fffffff                                     *)
ProgramPage_WideMask(m, b, address, size, p, off, n) ==
    LET a == MaskAddress_Wide(address)
    IN  Return("ProgramPage",
               Result(DevWrite(m, a, p, off, size), b, 0, NoData,
                      <<CallEv("ProgramPage", <<address, size, p, off>>),
                        WriteEv(a, p, off, size)>> \o Poll(n)))

(* ProgramPage returning the number of bytes written                      *)
ProgramPage_ReturnsSize(m, b, address, size, p, off, n) ==
    LET a == MaskAddress(address)
    IN  Return("ProgramPage",
               Result(DevWrite(m, a, p, off, size), b, size, NoData,
                      <<CallEv("ProgramPage", <<address, size, p, off>>),
                        WriteEv(a, p, off, size)>> \o Poll(n)))

(* data is the pointer: buffer p at offset off                             *)
ProgramPage(m, b, address, size, p, off, n) ==
    LET a == MaskAddress(address)
    IN  Return("ProgramPage",
               Result(DevWrite(m, a, p, off, size), b, 0, NoData,
                      <<CallEv("ProgramPage", <<address, size, p, off>>),
                        WriteEv(a, p, off, size)>> \o Poll(n)))

(* const uint32_t pages = size >> PAGE_SIZE_SHIFT                          *)
PageCount(size) == size \div (2 ^ PAGE_SIZE_SHIFT)

(* the address is not advanced                                             *)
NextPageAddress_NoAdvance(address) == address

(* address += (0x1 << PAGE_SIZE_SHIFT)                                     *)
NextPageAddress(address) == Add32(address, 2 ^ PAGE_SIZE_SHIFT)

(* data += (0x1 << PAGE_SIZE_SHIFT)                                        *)
NextPageData(off) == off + 2 ^ PAGE_SIZE_SHIFT

(* the for loop of SEGGER_OPEN_Program from iteration i on; n is the       *)
(* number of busy answers the chip gives after each page                   *)
RECURSIVE ProgramLoop(_, _, _, _, _, _, _, _, _)
ProgramLoop(m, b, address, p, off, i, pages, n, t) ==
    IF ~(i < pages) THEN Result(m, b, 0, NoData, t)
    ELSE LET r == ProgramPage(m, b, address, 2 ^ PAGE_SIZE_SHIFT, p, off, n)
         IN  IF r.ret # 0 THEN Result(r.mem, b, 1, NoData, t \o r.trace)
             ELSE ProgramLoop(r.mem, b, NextPageAddress(address), p,
                              NextPageData(off), i + 1, pages, n,
                              t \o r.trace)

SEGGER_OPEN_Program(m, b, address, size, p, n) ==
    Return("SEGGER_OPEN_Program",
           ProgramLoop(m, b, address, p, 0, 0, PageCount(size), n,
                       <<CallEv("SEGGER_OPEN_Program",
                                <<address, size, p>>)>>))

(* EraseChip returning without a status query                              *)
EraseChip_NoWait(m, b, n) ==
    Return("EraseChip",
           Result(DevEraseChip(m), b, 0, NoData,
                  <<CallEv("EraseChip", <<>>), ChipEraseEv>>))

(* EraseChip sending the erase of the first sector                         *)
EraseChip_FirstSector(m, b, n) ==
    Return("EraseChip",
           Result(DevEraseSector(m, 0), b, 0, NoData,
                  <<CallEv("EraseChip", <<>>), EraseEv(0)>> \o Poll(n)))

EraseChip(m, b, n) ==
    Return("EraseChip",
           Result(DevEraseChip(m), b, 0, NoData,
                  <<CallEv("EraseChip", <<>>), ChipEraseEv>> \o Poll(n)))

(* the sector address advanced by a page instead of a sector               *)
NextSectorAddress_PageStride(SectorAddr) ==
    Add32(SectorAddr, 2 ^ PAGE_SIZE_SHIFT)

(* SectorAddr += (1 << SECTOR_SIZE_SHIFT)                                  *)
NextSectorAddress(SectorAddr) == Add32(SectorAddr, 2 ^ SECTOR_SIZE_SHIFT)

(* the for loop of SEGGER_OPEN_Erase from iteration i on                   *)
RECURSIVE EraseLoop(_, _, _, _, _, _, _)
EraseLoop(m, b, SectorAddr, i, NumSectors, n, t) ==
    IF ~(i < NumSectors) THEN Result(m, b, 0, NoData, t)
    ELSE LET r == EraseSector(m, b, ToU32(MaskAddress(SectorAddr)), n)
         IN  IF r.ret # 0 THEN Result(r.mem, b, 1, NoData, t \o r.trace)
             ELSE EraseLoop(r.mem, b, NextSectorAddress(SectorAddr), i + 1,
                            NumSectors, n, t \o r.trace)

(* the loop running while i <= NumSectors: one sector more                 *)
SEGGER_OPEN_Erase_OneMore(m, b, SectorAddr, SectorIndex, NumSectors, n) ==
    LET f == FeedWatchdog(m, b)
    IN  Return("SEGGER_OPEN_Erase",
               EraseLoop(m, b, SectorAddr, 0, NumSectors + 1, n,
                         <<CallEv("SEGGER_OPEN_Erase",
                                  <<SectorAddr, SectorIndex, NumSectors>>)>>
                             \o f.trace))

(* SEGGER_OPEN_Erase without the FeedWatchdog call                         *)
SEGGER_OPEN_Erase_NoFeed(m, b, SectorAddr, SectorIndex, NumSectors, n) ==
    Return("SEGGER_OPEN_Erase",
           EraseLoop(m, b, SectorAddr, 0, NumSectors, n,
                     <<CallEv("SEGGER_OPEN_Erase",
                              <<SectorAddr, SectorIndex, NumSectors>>)>>))

SEGGER_OPEN_Erase(m, b, SectorAddr, SectorIndex, NumSectors, n) ==
    LET f == FeedWatchdog(m, b)
    IN  Return("SEGGER_OPEN_Erase",
               EraseLoop(m, b, SectorAddr, 0, NumSectors, n,
                         <<CallEv("SEGGER_OPEN_Erase",
                                  <<SectorAddr, SectorIndex, NumSectors>>)>>
                             \o f.trace))

(* every chunk as long as the buffer                                       *)
ChunkSize_WholeBuffer(size, i) == BufferSize

(* const uint32_t s = klib::min(size - i, sizeof(buffer))                  *)
ChunkSize(size, i) == Min(size - i, BufferSize)

(* memory::read(a, buffer, s): the first s bytes of the buffer are         *)
(* overwritten, the rest keeps what it held                                *)
ReadIntoBuffer(m, b, a, s) ==
    [j \in 0 .. BufferSize - 1 |-> IF j < s THEN DevByte(m, a + j) ELSE b[j]]

(* the scan stopping one byte early: j < s - 1                             *)
ChunkMismatch_SkipLast(b, s, blank_value) ==
    \E j \in 0 .. s - 2 : b[j] # blank_value

(* the scan running over the whole buffer: j < sizeof(buffer)              *)
ChunkMismatch_WholeBuffer(b, s, blank_value) ==
    \E j \in 0 .. BufferSize - 1 : b[j] # blank_value

(* for (j = 0; j < s; j++) if (buffer[j] != blank_value) return 1          *)
ChunkMismatch(b, s, blank_value) == \E j \in 0 .. s - 1 : b[j] # blank_value

(* the outer loop of BlankCheck from offset i on                           *)
RECURSIVE BlankCheckLoop(_, _, _, _, _, _, _)
BlankCheckLoop(m, b, address, size, blank_value, i, t) ==
    IF ~(i < size) THEN Result(m, b, 0, NoData, t)
    ELSE LET s  == ChunkSize(size, i)
             a  == MaskAddress(address) + i
             nb == ReadIntoBuffer(m, b, a, s)
             t2 == Append(t, ReadEv(a, s))
         IN  IF ChunkMismatch(nb, s, blank_value)
             THEN Result(m, nb, 1, NoData, t2)
             ELSE BlankCheckLoop(m, nb, address, size, blank_value, i + s, t2)

BlankCheck(m, b, address, size, blank_value) ==
    Return("BlankCheck",
           BlankCheckLoop(m, b, address, size, blank_value, 0,
                          <<CallEv("BlankCheck",
                                   <<address, size, blank_value>>)>>))

(* memory::read(a, data, size); return size                                *)
SEGGER_OPEN_Read(m, b, address, size) ==
    LET a == MaskAddress(address)
    IN  Return("SEGGER_OPEN_Read",
               Result(m, b, size, [k \in 0 .. size - 1 |-> DevByte(m, a + k)],
                      <<CallEv("SEGGER_OPEN_Read", <<address, size>>),
                        ReadEv(a, size)>>))

----------------------------------------------------------------------------
(* What the host passes.                                                   *)

(* 0x00001000, its alias 0xA0001000 in the mapped space of the descriptor, *)
(* and 0xFFFFFF00, whose low 28 bits exceed the capacity and whose next    *)
(* page wraps to 0x00000000                                                *)
HostAddresses == {U32(0, 4096), U32(BaseAddressHi, 4096), U32(65535, 65280)}

(* the same, 0x00001010, which lies inside a sector, the last sector       *)
(* 0x0007F000 of the chip, and the capacity 0x00080000                     *)
SectorAddresses ==
    HostAddresses \cup {U32(0, 4096 + 16), U32(7, 61440), U32(8, 0)}

(* the same, the last page 0x0007FF00 of the chip, and the capacity        *)
ReadAddresses == HostAddresses \cup {U32(7, 65280), U32(8, 0)}

ProgramSizes == {k * PageSize : k \in 0 .. MaxPages} \cup {PageSize + 44}

PageSizes == {PageSize, 2 * PageSize}

CheckSizes == {0, PageSize, PageSize + 44, SectorSize}

ReadSizes == {0, PageSize, PageSize + 44}

BlankValues == {BlankValue, 0}

(* chip contents the loader may find: erased, or one programmed byte at    *)
(* 0x112B                                                                  *)
InitialContents == {NoData, [d \in {4096 + PageSize + 43} |-> 0]}

ZeroBuffer == [j \in 0 .. BufferSize - 1 |-> 0]

----------------------------------------------------------------------------
(* The table of entry points the host reads from the loaded image.  A     *)
(* slot holds the entry point's name where the code stores its address,    *)
(* and NULL where it stores nullptr.                                       *)

NATIVE_READ == FALSE

CHIP_ERASE_Off == FALSE

CHIP_ERASE == TRUE

UNIFORM_SECTORS == TRUE

CUSTOM_VERIFY == FALSE

NULL == "nullptr"

BLANK_CHECK_FUNC == IF NATIVE_READ THEN NULL ELSE "BlankCheck"

OPEN_READ_FUNC == IF NATIVE_READ THEN NULL ELSE "SEGGER_OPEN_Read"

VERIFY_FUNC == IF CUSTOM_VERIFY THEN "Verify" ELSE NULL

CHIP_ERASE_FUNC == IF CHIP_ERASE THEN "EraseChip" ELSE NULL

UNIFORM_ERASE_FUNC == IF UNIFORM_SECTORS THEN "SEGGER_OPEN_Erase" ELSE NULL

SEGGER_OFL_Api ==
    <<"FeedWatchdog",
      "Init",
      "UnInit",
      "EraseSector",
      "ProgramPage",
      BLANK_CHECK_FUNC,
      CHIP_ERASE_FUNC,
      VERIFY_FUNC,
      NULL,
      OPEN_READ_FUNC,
      "SEGGER_OPEN_Program",
      UNIFORM_ERASE_FUNC,
      NULL>>

(* the host calls an entry point through its slot of the table             *)
Offered(fn) == \E i \in DOMAIN SEGGER_OFL_Api : SEGGER_OFL_Api[i] = fn

----------------------------------------------------------------------------
(* The state machine.  The host calls one entry point (pc goes from "host" *)
(* to "returned"), looks at the result and is free to call again.          *)

Returns(r) ==
    /\ pc' = "returned"
    /\ old' = mem
    /\ mem' = r.mem
    /\ buffer' = r.buffer
    /\ ret' = r.ret
    /\ out' = r.out
    /\ trace' = r.trace

Loaded ==
    /\ pc = "host"
    /\ mem \in InitialContents
    /\ old = mem
    /\ buffer = ZeroBuffer
    /\ ret = 0
    /\ out = NoData
    /\ trace = <<>>

CallFeedWatchdog ==
    /\ pc = "host"
    /\ Offered("FeedWatchdog")
    /\ Returns(FeedWatchdog(mem, buffer))

CallInit ==
    /\ pc = "host"
    /\ Offered("Init")
    /\ \E n \in 0 .. MaxBusy : Returns(Init(mem, buffer, 0, 0, 1, n))

CallUnInit ==
    /\ pc = "host"
    /\ Offered("UnInit")
    /\ Returns(UnInit(mem, buffer, 1))

CallEraseSector ==
    /\ pc = "host"
    /\ Offered("EraseSector")
    /\ \E a \in SectorAddresses, n \in 0 .. MaxBusy :
           Returns(EraseSector(mem, buffer, a, n))

CallProgramPage ==
    /\ pc = "host"
    /\ Offered("ProgramPage")
    /\ \E a \in HostAddresses, size \in PageSizes, p \in Patterns,
          n \in 0 .. MaxBusy :
           Returns(ProgramPage(mem, buffer, a, size, p, 0, n))

CallBlankCheck ==
    /\ pc = "host"
    /\ Offered("BlankCheck")
    /\ \E a \in HostAddresses, size \in CheckSizes, v \in BlankValues :
           Returns(BlankCheck(mem, buffer, a, size, v))

CallEraseChip ==
    /\ pc = "host"
    /\ Offered("EraseChip")
    /\ \E n \in 0 .. MaxBusy : Returns(EraseChip(mem, buffer, n))

CallRead ==
    /\ pc = "host"
    /\ Offered("SEGGER_OPEN_Read")
    /\ \E a \in ReadAddresses, size \in ReadSizes :
           Returns(SEGGER_OPEN_Read(mem, buffer, a, size))

CallProgram ==
    /\ pc = "host"
    /\ Offered("SEGGER_OPEN_Program")
    /\ \E a \in HostAddresses, size \in ProgramSizes, p \in Patterns,
          n \in 0 .. MaxBusy :
           Returns(SEGGER_OPEN_Program(mem, buffer, a, size, p, n))

CallErase ==
    /\ pc = "host"
    /\ Offered("SEGGER_OPEN_Erase")
    /\ \E a \in HostAddresses, k \in 0 .. MaxSectors, n \in 0 .. MaxBusy :
           Returns(SEGGER_OPEN_Erase(mem, buffer, a, 0, k, n))

(* the host has taken the result                                           *)
HostContinues ==
    /\ pc = "returned"
    /\ pc' = "host"
    /\ old' = mem
    /\ ret' = 0
    /\ out' = NoData
    /\ trace' = <<>>
    /\ UNCHANGED <<mem, buffer>>

Next ==
    \/ CallFeedWatchdog
    \/ CallInit
    \/ CallUnInit
    \/ CallEraseSector
    \/ CallProgramPage
    \/ CallBlankCheck
    \/ CallEraseChip
    \/ CallRead
    \/ CallProgram
    \/ CallErase
    \/ HostContinues

Spec == Loaded /\ [][Next]_vars

----------------------------------------------------------------------------
(* The polling loops step by step.  In SpecPoll a call of Init,            *)
(* EraseSector, ProgramPage or EraseChip issues its command and then waits *)
(* in its loop, pc = "polling" for a device that will answer not busy and  *)
(* pc = "polling_stuck" for a device that stays busy; each step is one     *)
(* status query.  The trace keeps the first MaxPollsKept busy answers.     *)

(* the loop gives up at its second status query                            *)
LoopContinues_Capped(busy, polls) == busy /\ polls < 1

(* while (memory::is_busy())                                               *)
LoopContinues(busy, polls) == busy

(* the call up to its command: the events before the first status query    *)
Begin(r) ==
    /\ pc' \in {"polling", "polling_stuck"}
    /\ old' = mem
    /\ mem' = r.mem
    /\ buffer' = r.buffer
    /\ ret' = r.ret
    /\ out' = r.out
    /\ trace' = SubSeq(r.trace, 1, Len(r.trace) - 2)

BeginInit ==
    /\ pc = "host"
    /\ Begin(Init(mem, buffer, 0, 0, 1, 0))

BeginEraseSector ==
    /\ pc = "host"
    /\ \E a \in HostAddresses : Begin(EraseSector(mem, buffer, a, 0))

BeginProgramPage ==
    /\ pc = "host"
    /\ \E a \in HostAddresses, size \in PageSizes, p \in Patterns :
           Begin(ProgramPage(mem, buffer, a, size, p, 0, 0))

BeginEraseChip ==
    /\ pc = "host"
    /\ Begin(EraseChip(mem, buffer, 0))

(* one status query with its answer: the delay and the loop again, or the  *)
(* return                                                                  *)
Status(busy) ==
    LET polls == Cardinality({i \in 1 .. Len(trace) :
                                 trace[i].op = "is_busy"})
    IN  IF LoopContinues(busy, polls)
        THEN /\ trace' = IF polls < MaxPollsKept
                         THEN trace \o <<BusyEv(busy), DelayEv>>
                         ELSE trace
             /\ UNCHANGED <<pc, mem, old, buffer, ret, out>>
        ELSE /\ trace' = trace \o <<BusyEv(busy), RetEv(trace[1].fn, ret)>>
             /\ pc' = "returned"
             /\ UNCHANGED <<mem, old, buffer, ret, out>>

StatusBusy ==
    /\ pc \in {"polling", "polling_stuck"}
    /\ Status(TRUE)

StatusReady ==
    /\ pc = "polling"
    /\ Status(FALSE)

NextPoll ==
    \/ BeginInit
    \/ BeginEraseSector
    \/ BeginProgramPage
    \/ BeginEraseChip
    \/ StatusBusy
    \/ StatusReady
    \/ HostContinues

(* the processor keeps running the loop, and a device that is not stuck    *)
(* comes to answer not busy                                                *)
SpecPoll == Loaded /\ [][NextPoll]_vars /\ WF_vars(StatusReady)

----------------------------------------------------------------------------
(* The whole chip.  In SpecChip the host programs pages, erases the chip   *)
(* with EraseChip, and erases it with SEGGER_OPEN_Erase over all its       *)
(* sectors; the for loop of that call runs one iteration per step, with    *)
(* pc = "erasing".  The loop variables are read off the trace: i is the    *)
(* number of EraseSector calls made, and the masked SectorAddr is the      *)
(* masked successor of the address passed to the last of them.             *)

(* the sectors of the chip: 128                                            *)
ChipSectors == FlashSize \div SectorSize

BeginEraseAll ==
    /\ pc = "host"
    /\ Offered("SEGGER_OPEN_Erase")
    /\ pc' = "erasing"
    /\ old' = mem
    /\ ret' = 0
    /\ out' = NoData
    /\ trace' = <<CallEv("SEGGER_OPEN_Erase", <<U32(0, 0), 0, ChipSectors>>)>>
                    \o FeedWatchdog(mem, buffer).trace
    /\ UNCHANGED <<mem, buffer>>

(* for (i = 0; i < NumSectors; i++) { r = EraseSector(...); if (r) return  *)
(* 1; SectorAddr += 4096; } return 0: one iteration, or the exit           *)
EraseStep ==
    /\ pc = "erasing"
    /\ LET calls == SelectSeq(trace, LAMBDA e : e.op = "call"
                                                 /\ e.fn = "EraseSector")
           i     == Len(calls)
           busy  == Len(SelectSeq(trace, LAMBDA e : e = BusyEv(TRUE)))
           addr  == IF i = 0 THEN trace[1].args[1]
                    ELSE NextSectorAddress(calls[i].args[1])
           done(v) ==
               /\ pc' = "returned"
               /\ ret' = v
               /\ trace' = Append(trace, RetEv("SEGGER_OPEN_Erase", v))
               /\ UNCHANGED <<mem, old, buffer, out>>
       IN  IF i < trace[1].args[3]
           THEN \E n \in 0 .. MaxBusy :
                    /\ i > 0 => n * i = busy
                    /\ LET r == EraseSector(mem, buffer,
                                            ToU32(MaskAddress(addr)), n)
                       IN  IF r.ret # 0
                           THEN done(1)
                           ELSE /\ mem' = r.mem
                                /\ trace' = trace \o r.trace
                                /\ UNCHANGED <<pc, old, buffer, ret, out>>
           ELSE done(0)

NextChip ==
    \/ CallProgramPage
    \/ CallEraseChip
    \/ BeginEraseAll
    \/ EraseStep
    \/ HostContinues

SpecChip == Loaded /\ [][NextChip]_vars

----------------------------------------------------------------------------
(* The static buffer between calls.  In SpecStale the host programs pages  *)
(* and checks and reads ranges, among them ranges shorter than the buffer, *)
(* whose check leaves the rest of the buffer as an earlier call filled it. *)

(* lengths below the 256 bytes of the buffer                               *)
ShortSizes == {44, 200}

CallBlankCheckShort ==
    /\ pc = "host"
    /\ Offered("BlankCheck")
    /\ \E a \in HostAddresses, size \in ShortSizes, v \in BlankValues :
           Returns(BlankCheck(mem, buffer, a, size, v))

NextStale ==
    \/ CallProgramPage
    \/ CallBlankCheck
    \/ CallBlankCheckShort
    \/ CallRead
    \/ HostContinues

SpecStale == Loaded /\ [][NextStale]_vars

----------------------------------------------------------------------------
(* Vocabulary of the properties.                                           *)

Returned == pc = "returned"

(* the entry point the host called, and its arguments                      *)
Fn == trace[1].fn

Args == trace[1].args

IsCall(e, fn) == e.op = "call" /\ e.fn = fn

IsCommand(e) == e.op \in {"erase", "chip_erase", "write", "read"}

HasAddress(e) == e.op \in {"erase", "write", "read"}

CallsOf(t, fn) == SelectSeq(t, LAMBDA e : IsCall(e, fn))

Commands(t) == SelectSeq(t, IsCommand)

Events(t, op) == SelectSeq(t, LAMBDA e : e.op = op)

(* a uint32_t with its top four bits cleared, as a number                  *)
Low28(a) == (a.hi % 4096) * 65536 + a.lo

(* a + n < 2^32                                                            *)
Fits32(a, n) == a.hi + ((a.lo + n) \div 65536) < 65536

Less32(a, b) == a.hi < b.hi \/ (a.hi = b.hi /\ a.lo < b.lo)

(* a nested call of fn that returns non-zero makes the bulk call return 1  *)
(* and is the last call of fn                                              *)
AbortsOnFailure(fn) ==
    \A i \in 1 .. Len(trace) - 1 :
        (trace[i].op = "return" /\ trace[i].fn = fn /\ trace[i].val # 0)
            => /\ ret = 1
               /\ \A j \in i + 1 .. Len(trace) : ~IsCall(trace[j], fn)

(* the k-th nested ProgramPage call takes page k of the request            *)
PagesInOrder(address, p, N) ==
    LET pp == CallsOf(trace, "ProgramPage")
        ww == Events(trace, "write")
    IN  /\ Len(pp) = N
        /\ Len(ww) = N
        /\ \A k \in 1 .. N :
               /\ pp[k].args = <<Add32(address, (k - 1) * 256), 256, p,
                                 (k - 1) * 256>>
               /\ ww[k].len = 256
               /\ ww[k].off = (k - 1) * 256

Increasing(N) ==
    LET pp == CallsOf(trace, "ProgramPage")
    IN  \A k \in 1 .. N - 1 : Less32(pp[k].args[1], pp[k + 1].args[1])

----------------------------------------------------------------------------
(* C1 as stated: SEGGER_OPEN_Program over N whole pages makes exactly N    *)
(* ProgramPage calls of length 256 at address, address + 256, ... with the *)
(* data pointer advanced by 256 per call, the addresses strictly           *)
(* increasing for every start address, and stops with 1 at the first       *)
(* failing page.                                                           *)
C1_AsStated ==
    (Returned /\ Fn = "SEGGER_OPEN_Program") =>
        /\ PagesInOrder(Args[1], Args[3], Args[2] \div 256)
        /\ Increasing(Args[2] \div 256)
        /\ AbortsOnFailure("ProgramPage")

(* C1 amended: the same, the addresses being taken modulo 2^32 and         *)
(* strictly increasing when address + (N - 1) * 256 stays below 2^32.      *)
C1_PageCalls ==
    (Returned /\ Fn = "SEGGER_OPEN_Program") =>
        LET N == Args[2] \div 256
        IN  /\ PagesInOrder(Args[1], Args[3], N)
            /\ (N >= 1 /\ Fits32(Args[1], (N - 1) * 256)) => Increasing(N)
            /\ AbortsOnFailure("ProgramPage")

C1_Witness ==
    /\ Returned
    /\ Fn = "SEGGER_OPEN_Program"
    /\ Args[1] = U32(40960, 4096)
    /\ Args[2] = 512
    /\ Len(CallsOf(trace, "ProgramPage")) = 2
    /\ ret = 0

(* C2 as stated: when SEGGER_OPEN_Program returns 0, every byte of the     *)
(* request [address, address + size) was sent in a page-program command.   *)
C2_FullRange ==
    (Returned /\ Fn = "SEGGER_OPEN_Program" /\ ret = 0) =>
        \A k \in 0 .. Args[2] - 1 :
            \E i \in 1 .. Len(trace) :
                /\ trace[i].op = "write"
                /\ trace[i].buf = Args[3]
                /\ trace[i].off <= k
                /\ k < trace[i].off + trace[i].len
                /\ trace[i].addr + (k - trace[i].off)
                       = Low28(Add32(Args[1], k))

(* C3: SEGGER_OPEN_Erase of M sectors makes exactly M EraseSector calls,   *)
(* whose erase commands go to the native offsets of SectorAddr,            *)
(* SectorAddr + 4096, ... in that order, and stops with 1 at the first     *)
(* failing sector.                                                         *)
C3_SectorCalls ==
    (Returned /\ Fn = "SEGGER_OPEN_Erase") =>
        LET M  == Args[3]
            es == CallsOf(trace, "EraseSector")
            ee == Events(trace, "erase")
        IN  /\ Len(es) = M
            /\ Len(ee) = M
            /\ \A j \in 1 .. M :
                   /\ ee[j].addr = Low28(Add32(Args[1], (j - 1) * 4096))
                   /\ Low28(es[j].args[1]) = ee[j].addr
            /\ AbortsOnFailure("EraseSector")

C3_Witness ==
    /\ Returned
    /\ Fn = "SEGGER_OPEN_Erase"
    /\ Args[1] = U32(40960, 4096)
    /\ Args[3] = 2
    /\ Events(trace, "erase") = <<EraseEv(4096), EraseEv(8192)>>
    /\ ret = 0

----------------------------------------------------------------------------
(* Address masking.                                                        *)

AddressTaking ==
    {"EraseSector", "ProgramPage", "BlankCheck", "SEGGER_OPEN_Read",
     "SEGGER_OPEN_Program", "SEGGER_OPEN_Erase"}

(* the number of bytes a request covers from its start address             *)
Span ==
    CASE Fn = "EraseSector"         -> 1
      [] Fn = "ProgramPage"         -> Args[2]
      [] Fn = "BlankCheck"          -> Args[2]
      [] Fn = "SEGGER_OPEN_Read"    -> Args[2]
      [] Fn = "SEGGER_OPEN_Program" -> (Args[2] \div 256) * 256
      [] Fn = "SEGGER_OPEN_Erase"   -> Args[3] * 4096

(* the distance of the k-th bus command of a call from the first           *)
Stride ==
    CASE Fn = "SEGGER_OPEN_Erase" -> 4096
      [] OTHER -> 256

(* C4 as stated: whatever 32-bit address the host passes, every address    *)
(* placed in a bus command lies in [0, 0x80000).                           *)
C4_AsStated ==
    Returned =>
        \A i \in 1 .. Len(trace) :
            HasAddress(trace[i]) => trace[i].addr \in 0 .. 524288 - 1

(* C4 amended: the k-th bus command of a call carries the host address of  *)
(* its page, sector or chunk with the top four bits cleared (BlankCheck    *)
(* adds the chunk offset to the masked start); the commands stay inside    *)
(* [0, 0x80000) when the masked start address is below the capacity and    *)
(* the masked start address plus the length of the request does not exceed *)
(* the capacity.                                                           *)
C4_Masked ==
    (Returned /\ Fn \in AddressTaking) =>
        LET A  == Args[1]
            cc == Commands(trace)
        IN  /\ \A k \in 1 .. Len(cc) :
                   cc[k].addr =
                       IF Fn = "BlankCheck"
                       THEN Low28(A) + (k - 1) * Stride
                       ELSE Low28(Add32(A, (k - 1) * Stride))
            /\ (Low28(A) < 524288 /\ Low28(A) + Span <= 524288) =>
                   \A k \in 1 .. Len(cc) :
                       /\ cc[k].addr \in 0 .. 524288 - 1
                       /\ cc[k].op # "erase" => cc[k].addr + cc[k].len <= 524288

(* a read of the last page of the chip: its command ends at the capacity   *)
C4_Witness ==
    /\ Returned
    /\ Fn = "SEGGER_OPEN_Read"
    /\ Args = <<U32(7, 65280), 256>>
    /\ Commands(trace) = <<ReadEv(524288 - 256, 256)>>

(* a read of no bytes at the capacity: the start address is not below the  *)
(* capacity and the command carries it                                     *)
C4_WitnessAtCapacity ==
    /\ Returned
    /\ Fn = "SEGGER_OPEN_Read"
    /\ Args = <<U32(8, 0), 0>>
    /\ Commands(trace) = <<ReadEv(524288, 0)>>

(* a check of a sector through its alias in the mapped space               *)
C4_WitnessAlias ==
    /\ Returned
    /\ Fn = "BlankCheck"
    /\ Args[1] = U32(40960, 4096)
    /\ Args[2] = 4096
    /\ Len(Commands(trace)) = 16
    /\ Commands(trace)[16].addr = 4096 + 15 * 256

(* the bus commands the entry point fn issues for address a with the       *)
(* other arguments of the last call                                        *)
CommandsFor(fn, a) ==
    CASE fn = "EraseSector" ->
             Commands(EraseSector(old, buffer, a, 0).trace)
      [] fn = "ProgramPage" ->
             Commands(ProgramPage(old, buffer, a, Args[2], Args[3], Args[4],
                                  0).trace)
      [] fn = "BlankCheck" ->
             Commands(BlankCheck(old, buffer, a, Args[2], Args[3]).trace)
      [] fn = "SEGGER_OPEN_Read" ->
             Commands(SEGGER_OPEN_Read(old, buffer, a, Args[2]).trace)

(* C5: called with an alias 0xA0000000 + o of a native offset o inside the *)
(* capacity, each of EraseSector, ProgramPage, BlankCheck and              *)
(* SEGGER_OPEN_Read issues its bus commands at o, the same commands as     *)
(* when called with o itself.                                              *)
C5_Aliases ==
    (/\ Returned
     /\ Fn \in {"EraseSector", "ProgramPage", "BlankCheck", "SEGGER_OPEN_Read"}
     /\ Args[1].hi >= 40960
     /\ (Args[1].hi - 40960) * 65536 + Args[1].lo < 524288)
        => LET o  == (Args[1].hi - 40960) * 65536 + Args[1].lo
               cc == Commands(trace)
           IN  /\ Len(cc) >= 1 => cc[1].addr = o
               /\ cc = CommandsFor(Fn, U32(o \div 65536, o % 65536))

C5_Witness ==
    /\ Returned
    /\ Fn = "ProgramPage"
    /\ Args[1] = U32(40960, 4096)
    /\ Commands(trace) = <<WriteEv(4096, Args[3], 0, Args[2])>>

----------------------------------------------------------------------------
(* Return values.                                                          *)

(* C6: every entry point that returns a result, SEGGER_OPEN_Read among     *)
(* them, returns 0 for success or 1 for failure and no other value.        *)
C6_AsStated == (Returned /\ Fn # "FeedWatchdog") => ret \in {0, 1}

----------------------------------------------------------------------------
(* Contents of the chip.                                                   *)

(* every cell of [a, a + len) holds v                                      *)
RangeHolds(m, a, len, v) == \A k \in 0 .. len - 1 : DevByte(m, a + k) = v

(* the cells of [a, a + len) that do not hold v                            *)
Differing(m, a, len, v) == {k \in 0 .. len - 1 : DevByte(m, a + k) # v}

(* C7: for a range inside the capacity BlankCheck returns 0 when every     *)
(* cell of the range holds the blank value and 1 otherwise.                *)
C7_BlankCheck ==
    (Returned /\ Fn = "BlankCheck" /\ Low28(Args[1]) + Args[2] <= 524288) =>
        /\ ret \in {0, 1}
        /\ ret = 0 <=> RangeHolds(mem, Low28(Args[1]), Args[2], Args[3])

(* a single differing cell, the last of a range of 300 cells               *)
C7_Witness ==
    /\ Returned
    /\ Fn = "BlankCheck"
    /\ Args[2] = 300
    /\ Args[3] = 255
    /\ Differing(mem, Low28(Args[1]), 300, 255) = {299}
    /\ ret = 1

(* C8: after ProgramPage(address, 256, data) on a page address with data   *)
(* that is not blank, SEGGER_OPEN_Read(address, 256, buf) leaves buf equal *)
(* to data.                                                                *)
C8_RoundTrip ==
    (/\ Returned
     /\ Fn = "ProgramPage"
     /\ Args[2] = 256
     /\ Low28(Args[1]) % 256 = 0
     /\ \E k \in 0 .. 255 : HostByte(Args[3], Args[4] + k) # 255)
        => LET r == SEGGER_OPEN_Read(mem, buffer, Args[1], 256)
           IN  /\ DOMAIN r.out = 0 .. 255
               /\ \A k \in 0 .. 255 : r.out[k] = HostByte(Args[3], Args[4] + k)

C8_Witness ==
    /\ Returned
    /\ Fn = "ProgramPage"
    /\ Args = <<U32(0, 4096), 256, "mark", 0>>
    /\ SEGGER_OPEN_Read(mem, buffer, Args[1], 256).out[255] = 1
    /\ SEGGER_OPEN_Read(old, buffer, Args[1], 256).out[255] = 255

(* C9: after EraseSector on a sector-aligned address the call has returned *)
(* 0 and BlankCheck over the 4096 bytes of the sector with blank value     *)
(* 0xFF returns 0, whatever the chip held; a second EraseSector of the     *)
(* sector returns 0 and leaves the chip as it is; and after ProgramPage of *)
(* a page of the sector with data that is not blank, BlankCheck over the   *)
(* page returns 1.                                                         *)
C9_EraseBlank ==
    (/\ Returned
     /\ Fn = "EraseSector"
     /\ Low28(Args[1]) % 4096 = 0
     /\ Low28(Args[1]) < 524288)
        => LET again == EraseSector(mem, buffer, Args[1], 0)
               prog  == ProgramPage(mem, buffer, Args[1], 256, "mark", 0, 0)
           IN  /\ ret = 0
               /\ BlankCheck(mem, buffer, Args[1], 4096, 255).ret = 0
               /\ again.ret = 0
               /\ again.mem = mem
               /\ BlankCheck(again.mem, buffer, Args[1], 4096, 255).ret = 0
               /\ prog.ret = 0
               /\ BlankCheck(prog.mem, buffer, Args[1], 256, 255).ret = 1

(* a sector that held programmed cells has been erased                     *)
C9_Witness ==
    /\ Returned
    /\ Fn = "EraseSector"
    /\ Args[1] = U32(0, 4096)
    /\ ~RangeHolds(old, 4096, 4096, 255)
    /\ RangeHolds(mem, 4096, 4096, 255)

----------------------------------------------------------------------------
(* The watchdog.                                                           *)

FeedPositions == {i \in 1 .. Len(trace) : IsCall(trace[i], "FeedWatchdog")}

(* C10: SEGGER_OPEN_Erase calls FeedWatchdog exactly once, before its      *)
(* first sector erase and also when it erases no sector; no other entry    *)
(* point calls it.                                                         *)
C10_FeedOnce ==
    Returned =>
        CASE Fn = "SEGGER_OPEN_Erase" ->
                 /\ Cardinality(FeedPositions) = 1
                 /\ \A i \in FeedPositions, j \in 1 .. Len(trace) :
                        (trace[j].op = "erase"
                             \/ IsCall(trace[j], "EraseSector")) => i < j
          [] Fn = "FeedWatchdog" -> FeedPositions = {1}
          [] OTHER -> FeedPositions = {}

C10_Witness ==
    /\ Returned
    /\ Fn = "SEGGER_OPEN_Erase"
    /\ Args[3] = 2
    /\ FeedPositions = {2}
    /\ Len(Events(trace, "erase")) = 2

C10_WitnessNoSector ==
    /\ Returned
    /\ Fn = "SEGGER_OPEN_Erase"
    /\ Args[3] = 0
    /\ FeedPositions = {2}

----------------------------------------------------------------------------
(* The order of the steps of Init.                                         *)

(* the positions of the events of kind op in the trace                     *)
Positions(op) == {i \in 1 .. Len(trace) : trace[i].op = op}

(* every event of kind a comes before every event of kind b                *)
Precedes(a, b) == \A i \in Positions(a), j \in Positions(b) : i < j

(* the event before the closing return is a status query answered not busy *)
ReturnsAfterNotBusy ==
    /\ Len(trace) >= 3
    /\ trace[Len(trace) - 1] = BusyEv(FALSE)

(* C11: Init configures the bus once (mode 3, 1 MHz, 8 bits), then drives  *)
(* the chip-select pin, then issues the initialisation of the memory       *)
(* device, then queries the busy status; it returns 0, and the last event  *)
(* before its return is a status query answered not busy.                  *)
C11_InitOrder ==
    (Returned /\ Fn = "Init") =>
        /\ Events(trace, "spi_init")
               = <<[op |-> "spi_init", mode |-> 3, hz |-> 1000000,
                    bits |-> 8]>>
        /\ Len(Events(trace, "cs_set")) = 1
        /\ Len(Events(trace, "memory_init")) = 1
        /\ Precedes("spi_init", "cs_set")
        /\ Precedes("cs_set", "memory_init")
        /\ Precedes("memory_init", "is_busy")
        /\ Positions("is_busy") # {}
        /\ ret = 0
        /\ ReturnsAfterNotBusy

(* Init has returned after the chip answered busy once                     *)
C11_Witness ==
    /\ Returned
    /\ Fn = "Init"
    /\ Events(trace, "is_busy") = <<BusyEv(TRUE), BusyEv(FALSE)>>
    /\ ret = 0

----------------------------------------------------------------------------
(* The table of entry points.                                              *)

(* C12: the table has 13 slots, in the order feed-watchdog, init, uninit,  *)
(* erase-sector, program-page, blank-check, chip-erase, verify, calc-crc,  *)
(* open-read, open-program, open-erase, open-start; the calc-crc, the      *)
(* open-start and the verify slot are null and every other slot holds its  *)
(* entry point, so that every entry point the host has called is the       *)
(* content of a slot.                                                      *)
C12_ApiTable ==
    /\ Len(SEGGER_OFL_Api) = 13
    /\ SEGGER_OFL_Api[1] = "FeedWatchdog"
    /\ SEGGER_OFL_Api[2] = "Init"
    /\ SEGGER_OFL_Api[3] = "UnInit"
    /\ SEGGER_OFL_Api[4] = "EraseSector"
    /\ SEGGER_OFL_Api[5] = "ProgramPage"
    /\ SEGGER_OFL_Api[6] = "BlankCheck"
    /\ SEGGER_OFL_Api[7] = "EraseChip"
    /\ SEGGER_OFL_Api[8] = NULL
    /\ SEGGER_OFL_Api[9] = NULL
    /\ SEGGER_OFL_Api[10] = "SEGGER_OPEN_Read"
    /\ SEGGER_OFL_Api[11] = "SEGGER_OPEN_Program"
    /\ SEGGER_OFL_Api[12] = "SEGGER_OPEN_Erase"
    /\ SEGGER_OFL_Api[13] = NULL
    /\ Returned => Offered(Fn) /\ Fn # NULL

(* the host has called the entry point of the chip-erase slot              *)
C12_Witness ==
    /\ Returned
    /\ Fn = SEGGER_OFL_Api[7]
    /\ Len(Events(trace, "chip_erase")) = 1

----------------------------------------------------------------------------
(* Ready and busy.  A program or erase command, and the initialisation of  *)
(* the device, leave the device busy until it answers a status query with  *)
(* not busy.                                                               *)

MakesBusy(e) == e.op \in {"erase", "chip_erase", "write", "memory_init"}

(* the device is busy after the first k events of a call that found it     *)
(* ready                                                                   *)
BusyAfter(k) ==
    \E c \in 1 .. k :
        /\ MakesBusy(trace[c])
        /\ \A j \in c + 1 .. k : trace[j] # BusyEv(FALSE)

(* the return that closes the call at position i                           *)
ReturnOf(i) ==
    CHOOSE j \in i + 1 .. Len(trace) :
        /\ trace[j].op = "return"
        /\ trace[j].fn = trace[i].fn
        /\ \A k \in i + 1 .. j - 1 :
               ~(trace[k].op = "return" /\ trace[k].fn = trace[i].fn)

PollingCalls ==
    {i \in 1 .. Len(trace) :
        \/ IsCall(trace[i], "EraseSector")
        \/ IsCall(trace[i], "ProgramPage")
        \/ IsCall(trace[i], "EraseChip")}

(* C13: every call of EraseSector, ProgramPage and EraseChip issues its    *)
(* command exactly once, before its first status query, and the event      *)
(* before its return is a status query answered not busy; Init returns     *)
(* after a status query answered not busy whatever the device did before;  *)
(* and in a call that finds the device ready, the device is ready at the   *)
(* return and no erase, program or read command is issued while the        *)
(* device is busy.                                                         *)
C13_ReadyBusyReady ==
    Returned =>
        /\ \A i \in PollingCalls :
               LET j    == ReturnOf(i)
                   cmds == {k \in i + 1 .. j - 1 : IsCommand(trace[k])}
                   qs   == {k \in i + 1 .. j - 1 : trace[k].op = "is_busy"}
               IN  /\ Cardinality(cmds) = 1
                   /\ qs # {}
                   /\ \A c \in cmds, q \in qs : c < q
                   /\ trace[j - 1] = BusyEv(FALSE)
        /\ Fn = "Init" => ReturnsAfterNotBusy
        /\ ~BusyAfter(Len(trace))
        /\ \A k \in 1 .. Len(trace) :
               IsCommand(trace[k]) => ~BusyAfter(k - 1)

(* a bulk erase whose second command was issued after the chip had been    *)
(* busy with the first                                                     *)
C13_Witness ==
    /\ Returned
    /\ Fn = "SEGGER_OPEN_Erase"
    /\ Len(Events(trace, "erase")) = 2
    /\ Events(trace, "is_busy")
           = <<BusyEv(TRUE), BusyEv(FALSE), BusyEv(TRUE), BusyEv(FALSE)>>
    /\ \E k \in 1 .. Len(trace) : BusyAfter(k)

----------------------------------------------------------------------------
(* The polling loops have no iteration cap.                                *)

(* C14: in Init, EraseSector, ProgramPage and EraseChip, a call polling a  *)
(* device that comes to answer not busy returns, with 0; a call polling a  *)
(* device that stays busy stays in its loop, whatever the number of busy   *)
(* answers; and no call returns anything but 0.                            *)
C14_PollingTerminates ==
    /\ (pc = "polling") ~> (pc = "returned" /\ ret = 0)
    /\ [][pc = "polling_stuck" => pc' = "polling_stuck"]_vars
    /\ [](pc = "returned" => ret = 0)

(* a call has returned after the device answered busy as often as the      *)
(* trace keeps                                                             *)
C14_Witness ==
    /\ pc = "returned"
    /\ Fn = "ProgramPage"
    /\ Len(Events(trace, "is_busy")) = MaxPollsKept + 1
    /\ trace[Len(trace) - 1] = BusyEv(FALSE)
    /\ ret = 0

(* a call polls a device that stays busy                                   *)
C14_WitnessStuck ==
    /\ pc = "polling_stuck"
    /\ Fn = "EraseChip"
    /\ Len(Events(trace, "is_busy")) = MaxPollsKept

----------------------------------------------------------------------------
(* The polling strategy.                                                   *)

(* C15: in every call, of Init, EraseSector, ProgramPage and EraseChip and *)
(* of the bulk calls that go through them, the event after a command that  *)
(* makes the device busy is a status query; a status query answered busy   *)
(* is followed by one delay of 3 ms and then the next status query; a      *)
(* status query answered not busy is followed by no delay; and there is no *)
(* other delay.                                                            *)
C15_PollingStrategy ==
    Returned =>
        \A i \in 1 .. Len(trace) :
            /\ MakesBusy(trace[i]) =>
                   /\ i < Len(trace)
                   /\ trace[i + 1].op = "is_busy"
            /\ trace[i] = BusyEv(TRUE) =>
                   /\ i + 2 <= Len(trace)
                   /\ trace[i + 1] = [op |-> "delay", ms |-> 3]
                   /\ trace[i + 2].op = "is_busy"
            /\ trace[i] = BusyEv(FALSE) =>
                   /\ i < Len(trace)
                   /\ trace[i + 1].op = "return"
            /\ trace[i].op = "delay" =>
                   /\ i > 1
                   /\ trace[i - 1] = BusyEv(TRUE)

(* a page program that found the chip busy once                            *)
C15_Witness ==
    /\ Returned
    /\ Fn = "ProgramPage"
    /\ Len(Events(trace, "delay")) = 1
    /\ Events(trace, "is_busy") = <<BusyEv(TRUE), BusyEv(FALSE)>>

(* an initialisation whose first status query was answered not busy       *)
C15_WitnessNoDelay ==
    /\ Returned
    /\ Fn = "Init"
    /\ Events(trace, "is_busy") = <<BusyEv(FALSE)>>
    /\ Len(Events(trace, "delay")) = 0

----------------------------------------------------------------------------
(* Lengths and strides.                                                    *)

(* consecutive erase commands of the call are 4096 bytes apart in the      *)
(* native range of 2^28 bytes                                              *)
SectorStride ==
    LET ee == Events(trace, "erase")
    IN  \A k \in 1 .. Len(ee) - 1 :
            ee[k + 1].addr = (ee[k].addr + 4096) % (2 ^ 28)

(* C16 as stated: every program command of ProgramPage and of              *)
(* SEGGER_OPEN_Program carries exactly 256 bytes, whatever the arguments,  *)
(* and consecutive erase commands of SEGGER_OPEN_Erase are 4096 bytes      *)
(* apart.                                                                  *)
C16_AsStated ==
    Returned =>
        /\ Fn \in {"ProgramPage", "SEGGER_OPEN_Program"} =>
               \A i \in Positions("write") : trace[i].len = 256
        /\ Fn = "SEGGER_OPEN_Erase" => SectorStride

(* C16 amended: every program command of SEGGER_OPEN_Program carries       *)
(* 1 << PAGE_SIZE_SHIFT = 256 bytes, the page size of the descriptor,      *)
(* whatever its size argument; consecutive erase commands of               *)
(* SEGGER_OPEN_Erase are 1 << SECTOR_SIZE_SHIFT = 4096 bytes apart, the    *)
(* sector size of the descriptor, modulo 2^28; and the one program command *)
(* of a direct ProgramPage call carries as many bytes as its size argument *)
(* says.                                                                   *)
C16_Geometry ==
    Returned =>
        /\ Fn = "SEGGER_OPEN_Program" =>
               /\ 2 ^ PAGE_SIZE_SHIFT = FlashPageSize
               /\ \A i \in Positions("write") :
                      trace[i].len = FlashPageSize /\ trace[i].len = 256
        /\ Fn = "SEGGER_OPEN_Erase" =>
               /\ 2 ^ SECTOR_SIZE_SHIFT = FlashSectorSize
               /\ FlashSectorSize = 4096
               /\ SectorStride
        /\ Fn = "ProgramPage" =>
               /\ Cardinality(Positions("write")) = 1
               /\ \A i \in Positions("write") : trace[i].len = Args[2]

(* a direct ProgramPage call with a size of two pages has sent one program *)
(* command of 512 bytes                                                    *)
C16_Witness ==
    /\ Returned
    /\ Fn = "ProgramPage"
    /\ Args[2] = 512
    /\ \E i \in Positions("write") : trace[i].len = 512

----------------------------------------------------------------------------
(* The chunks of BlankCheck.                                               *)

RECURSIVE SumLen(_)
SumLen(rr) == IF rr = <<>> THEN 0 ELSE Head(rr).len + SumLen(Tail(rr))

(* C17: every read of BlankCheck has a length from 1 to 256; the first     *)
(* read starts at the masked address and every further read starts where   *)
(* the one before it ended; the lengths add up to no more than the         *)
(* requested length, and to the requested length when BlankCheck returns   *)
(* 0; and a read that brought a byte different from the blank value is     *)
(* the last read.                                                          *)
C17_Chunks ==
    (Returned /\ Fn = "BlankCheck") =>
        LET rr == Events(trace, "read")
        IN  /\ \A k \in 1 .. Len(rr) : rr[k].len \in 1 .. 256
            /\ Len(rr) >= 1 => rr[1].addr = Low28(Args[1])
            /\ \A k \in 1 .. Len(rr) - 1 :
                   rr[k + 1].addr = rr[k].addr + rr[k].len
            /\ SumLen(rr) <= Args[2]
            /\ ret = 0 => SumLen(rr) = Args[2]
            /\ \A k \in 1 .. Len(rr) - 1 :
                   RangeHolds(mem, rr[k].addr, rr[k].len, Args[3])

(* a check of a sector stopped at its second chunk, which held a           *)
(* programmed cell                                                         *)
C17_Witness ==
    /\ Returned
    /\ Fn = "BlankCheck"
    /\ Args[2] = 4096
    /\ Len(Events(trace, "read")) = 2
    /\ ~RangeHolds(mem, Events(trace, "read")[2].addr, 256, Args[3])
    /\ ret = 1

(* a check of 300 bytes read a chunk of 256 and a chunk of 44 bytes        *)
C17_WitnessTail ==
    /\ Returned
    /\ Fn = "BlankCheck"
    /\ Args[2] = 300
    /\ Len(Events(trace, "read")) = 2
    /\ Events(trace, "read")[2].len = 44

----------------------------------------------------------------------------
(* The address of the sector erase.                                        *)

(* C18: EraseSector issues one sector-erase command and no other command;  *)
(* its address is the low 28 bits of the argument, also when the argument  *)
(* is not a multiple of the sector size.                                   *)
C18_EraseAddress ==
    (Returned /\ Fn = "EraseSector") =>
        /\ Commands(trace) = <<EraseEv(Low28(Args[1]))>>
        /\ Commands(trace)[1].mode = "sector"
        /\ Commands(trace)[1].addr % 4096 = Args[1].lo % 4096

(* EraseSector(0x00001010) has sent the erase command to 0x00001010        *)
C18_Witness ==
    /\ Returned
    /\ Fn = "EraseSector"
    /\ Args[1] = U32(0, 4112)
    /\ Events(trace, "erase")[1].addr = 4112

----------------------------------------------------------------------------
(* Erasing the whole chip.                                                 *)

(* the loop of BlankCheck finds no differing byte: no chunk of the range,  *)
(* read into the buffer and scanned, holds a byte other than blank_value   *)
AllChunksBlank(m, b, address, size, blank_value) ==
    \A c \in 0 .. (size + BufferSize - 1) \div BufferSize - 1 :
        LET i == c * BufferSize
            s == ChunkSize(size, i)
        IN  ~ChunkMismatch(ReadIntoBuffer(m, b, MaskAddress(address) + i, s),
                           s, blank_value)

(* C19: EraseChip issues one chip-erase command and no other command, and  *)
(* then polls until not busy; SEGGER_OPEN_Erase from address 0 over 128    *)
(* sectors leaves the chip with the content EraseChip would have left; and *)
(* after either, the loop of BlankCheck over 0x00080000 bytes from address *)
(* 0 with blank value 0xFF finds no differing byte, which on each sector   *)
(* is when BlankCheck returns 0.                                           *)
C19_EraseChip ==
    /\ (Returned /\ Fn = "EraseChip") =>
           /\ Commands(trace) = <<ChipEraseEv>>
           /\ trace[3].op = "is_busy"
           /\ trace[Len(trace) - 1] = BusyEv(FALSE)
           /\ AllChunksBlank(mem, buffer, U32(0, 0), 524288, 255)
    /\ (Returned /\ Fn = "SEGGER_OPEN_Erase"
            /\ Args = <<U32(0, 0), 0, 128>>) =>
           /\ ret = 0
           /\ Len(Events(trace, "erase")) = 128
           /\ mem = EraseChip(old, buffer, 0).mem
           /\ AllChunksBlank(mem, buffer, U32(0, 0), 524288, 255)
    /\ Returned =>
           \A a \in {U32(0, 4096), U32(7, 61440)} :
               (BlankCheck(mem, buffer, a, 4096, 255).ret = 0)
                   <=> AllChunksBlank(mem, buffer, a, 4096, 255)

(* EraseChip has blanked a chip that held programmed cells                 *)
C19_Witness ==
    /\ Returned
    /\ Fn = "EraseChip"
    /\ old # NoData
    /\ mem = NoData
    /\ Len(Events(trace, "chip_erase")) = 1

(* SEGGER_OPEN_Erase over the 128 sectors has blanked such a chip          *)
C19_WitnessBulk ==
    /\ Returned
    /\ Fn = "SEGGER_OPEN_Erase"
    /\ Args[3] = 128
    /\ old # NoData
    /\ mem = NoData
    /\ Len(Events(trace, "erase")) = 128

----------------------------------------------------------------------------
(* Failure reports.                                                        *)

DriverOperations == {"Init", "UnInit", "EraseSector", "ProgramPage",
                     "EraseChip"}

(* C20: every return of Init, UnInit, EraseSector, ProgramPage and         *)
(* EraseChip, called by the host or by a bulk call, is a return of 0; a    *)
(* bulk call therefore runs all its iterations, size >> 8 ProgramPage      *)
(* calls or NumSectors EraseSector calls, and returns 0, never 1.          *)
C20_NoFailure ==
    Returned =>
        /\ \A i \in Positions("return") :
               trace[i].fn \in DriverOperations => trace[i].val = 0
        /\ Fn \in DriverOperations => ret = 0
        /\ Fn = "SEGGER_OPEN_Program" =>
               /\ ret = 0
               /\ Len(CallsOf(trace, "ProgramPage")) = Args[2] \div 256
        /\ Fn = "SEGGER_OPEN_Erase" =>
               /\ ret = 0
               /\ Len(CallsOf(trace, "EraseSector")) = Args[3]

(* a bulk program of two pages: both ProgramPage calls returned 0 and so   *)
(* did the bulk call                                                       *)
C20_Witness ==
    /\ Returned
    /\ Fn = "SEGGER_OPEN_Program"
    /\ Args[2] = 512
    /\ Len(SelectSeq(trace, LAMBDA e : e.op = "return"
                                         /\ e.fn = "ProgramPage"
                                         /\ e.val = 0)) = 2
    /\ ret = 0

----------------------------------------------------------------------------
(* What a call leaves alone.                                               *)

(* the cells of the chip outside [a, a + len) hold what they held before   *)
(* the call; a cell in neither mem nor old is erased in both               *)
UnchangedOutside(a, len) ==
    \A d \in (DOMAIN old) \cup (DOMAIN mem) :
        ~(a <= d /\ d < a + len) => DevByte(mem, d) = DevByte(old, d)

(* the request [a, a + len) starts at a multiple of unit and lies inside   *)
(* the chip                                                                *)
AlignedInRange(a, len, unit) == a % unit = 0 /\ a + len <= 524288

(* C21: SEGGER_OPEN_Erase of M sectors from a sector-aligned start whose   *)
(* range lies inside the chip leaves every cell outside                    *)
(* [start, start + M * 4096) as it was; SEGGER_OPEN_Program from a         *)
(* page-aligned address whose range lies inside the chip leaves every cell *)
(* outside [address, address + (size / 256) * 256) as it was; BlankCheck,  *)
(* SEGGER_OPEN_Read, UnInit and FeedWatchdog leave every cell as it was.   *)
(* Addresses are native offsets, the low 28 bits of the argument.          *)
C21_Frame ==
    Returned =>
        /\ (/\ Fn = "SEGGER_OPEN_Erase"
            /\ AlignedInRange(Low28(Args[1]), Args[3] * 4096, 4096))
               => UnchangedOutside(Low28(Args[1]), Args[3] * 4096)
        /\ (/\ Fn = "SEGGER_OPEN_Program"
            /\ AlignedInRange(Low28(Args[1]), (Args[2] \div 256) * 256,
                              256))
               => UnchangedOutside(Low28(Args[1]), (Args[2] \div 256) * 256)
        /\ Fn \in {"BlankCheck", "SEGGER_OPEN_Read", "UnInit",
                   "FeedWatchdog"}
               => mem = old

(* a bulk erase of one sector has erased programmed cells of the sector    *)
(* and the chip holds a programmed cell outside the sector                 *)
C21_Witness ==
    /\ Returned
    /\ Fn = "SEGGER_OPEN_Erase"
    /\ Args = <<U32(0, 4096), 0, 1>>
    /\ \E d \in DOMAIN old : 4096 <= d /\ d < 8192
    /\ \E d \in DOMAIN mem : ~(4096 <= d /\ d < 8192)
    /\ mem # old

(* a bulk program of one page next to a programmed cell of another page    *)
C21_WitnessProgram ==
    /\ Returned
    /\ Fn = "SEGGER_OPEN_Program"
    /\ Args[1] = U32(0, 4096)
    /\ Args[2] = 256
    /\ \E d \in DOMAIN old : d >= 4096 + 256 /\ d \in DOMAIN mem
    /\ mem # old

(* a BlankCheck of a chip that holds programmed cells                      *)
C21_WitnessReadOnly ==
    /\ Returned
    /\ Fn = "BlankCheck"
    /\ old # NoData
    /\ ret = 1

----------------------------------------------------------------------------
(* No state between calls.                                                 *)

(* buffers an earlier BlankCheck can have left: all zero, all erased, and  *)
(* a programmed byte in the middle of erased ones                          *)
OtherBuffers ==
    {ZeroBuffer,
     [j \in 0 .. BufferSize - 1 |-> BlankValue],
     [j \in 0 .. BufferSize - 1 |-> IF j = 128 THEN 1 ELSE BlankValue]}

(* C22: the value BlankCheck returns, and its reads, are those of the same *)
(* call on the same chip content with any other content of the static      *)
(* buffer; the value and the bytes SEGGER_OPEN_Read returns are those of   *)
(* the same call on the same chip content, and it leaves the buffer alone. *)
C22_Stateless ==
    Returned =>
        /\ Fn = "BlankCheck" =>
               \A b \in OtherBuffers :
                   LET r == BlankCheck(old, b, Args[1], Args[2], Args[3])
                   IN  /\ ret = r.ret
                       /\ trace = r.trace
                       /\ mem = r.mem
        /\ Fn = "SEGGER_OPEN_Read" =>
               \A b \in OtherBuffers :
                   LET r == SEGGER_OPEN_Read(old, b, Args[1], Args[2])
                   IN  /\ ret = r.ret
                       /\ out = r.out
                       /\ r.buffer = b

(* a check of 44 blank bytes returned 0 while the rest of the buffer held  *)
(* a programmed byte of an earlier check                                   *)
C22_Witness ==
    /\ Returned
    /\ Fn = "BlankCheck"
    /\ Args[2] = 44
    /\ Args[3] = 255
    /\ ret = 0
    /\ \E j \in 44 .. 255 : buffer[j] \notin {0, 255}

====
